---- MODULE Spec2Model ----
(***************************************************************************)
(* PyPiExtractor (wolfsoftware/pypi_extractor/pypi.py): the object's       *)
(* fields, its public methods as step-by-step actions, and the external    *)
(* collaborators (subprocess, Playwright, requests, the JSON decoder) as   *)
(* nondeterministic outcomes.                                              *)
(*                                                                         *)
(* Python values are modelled as follows.  A string is a TLA+ string; None *)
(* is the string NONE.  A dict whose keys may be absent is a record whose  *)
(* fields are options: <<>> for an absent key, <<v>> for a key holding v.  *)
(* A list is a sequence.  An ordered mapping (the JSON object `releases`)  *)
(* is a sequence of [version, release] pairs with distinct versions, in    *)
(* iteration order.  An exception is [kind, msg]; msg is the sequence of   *)
(* the text pieces str(e) is made of, so that an f-string is \o.           *)
(***************************************************************************)
EXTENDS Naturals, Sequences, FiniteSets, TLC

VARIABLES
    username,           \* self.username
    verbose,            \* self.verbose
    auto_install,       \* self.auto_install
    registry,           \* the registry: package name -> what requests.get / .json() give
    op,                 \* the public method the caller invoked last
    arg,                \* its argument (NONE when it takes none)
    pc,                 \* position of the thread of control
    installs,           \* subprocess.run commands executed during this call, in order
    stdout,             \* lines printed during this call
    playwright,         \* the sync_playwright() context: "none" | "started" | "stopped"
    browser,            \* the chromium browser: "none" | "open" | "closed" | "terminated"
    visited,            \* URLs page.goto was called with during this call
    page,               \* the .package-snippet elements of the loaded document
    elements,           \* page.query_selector_all('a.package-snippet')
    element_idx,        \* position of `for element in elements`
    packages,           \* the local `packages`
    package_idx,        \* position of `for package in packages`
    detailed_packages,  \* the local `detailed_packages`
    fetches,            \* package names requests.get was called for during this call
    reshaped,           \* package names whose payload reached lines 141-176 during this call
    cause,              \* the exception a collaborator or a subscription raised in this call
    outcome             \* what the caller got: [status, value, exc]

vars == <<username, verbose, auto_install, registry, op, arg, pc, installs, stdout,
          playwright, browser, visited, page, elements, element_idx, packages,
          package_idx, detailed_packages, fetches, reshaped, cause, outcome>>

\* the fields of the object
fields == <<username, verbose, auto_install>>

\* what one call works on
locals == <<installs, stdout, playwright, browser, visited, page, elements,
            element_idx, packages, package_idx, detailed_packages, fetches, reshaped, cause>>

-----------------------------------------------------------------------------
(* Bounds of the model. *)

\* longest artifact list of one release
MaxArtifacts == 2
\* longest profile listing
MaxPackages == 2

-----------------------------------------------------------------------------
(* Python values. *)

NONE == "None"

ErrorKind == "PyPiExtractorError"

\* a truth test that takes only None for false
FalsyNoneOnly(u) == u = NONE

Falsy(u) == u = NONE \/ u = ""

Exc(kind, msg) == [kind |-> kind, msg |-> msg]

NoExc == Exc("", <<>>)

\* d.get(k) of an option field: the value, or None
Get(opt) == IF opt = <<>> THEN NONE ELSE opt[1]

\* d.get(k, []) of an option field holding a list
GetList(opt) == IF opt = <<>> THEN <<>> ELSE opt[1]

\* the message contains the text piece t
Contains(msg, t) == \E j \in 1..Len(msg) : msg[j] = t

\* the message starts with the pieces of prefix
StartsWith(msg, prefix) ==
    /\ Len(prefix) <= Len(msg)
    /\ \A j \in 1..Len(prefix) : msg[j] = prefix[j]

\* the message is head followed by exactly the pieces of tail
IsConcat(msg, head, tail) == msg = head \o tail

RECURSIVE SeqsUpTo(_, _)
\* all sequences over S of length at most n
SeqsUpTo(S, n) ==
    IF n = 0 THEN {<<>>}
    ELSE LET shorter == SeqsUpTo(S, n - 1)
         IN  shorter \cup {Append(s, x) : s \in {t \in shorter : Len(t) = n - 1}, x \in S}

-----------------------------------------------------------------------------
(* The registry's JSON record of a package, as response.json() decodes it. *)

\* the keys of one artifact that are read by plain subscription, in the order read
PlainKeys ==
    <<"upload_time", "upload_time_iso_8601", "python_version", "url", "filename",
      "packagetype", "md5_digest">>

Artifact1 ==
    [upload_time |-> <<"2021-01-01T00:00:00">>,
     upload_time_iso_8601 |-> <<"2021-01-01T00:00:00Z">>,
     python_version |-> <<"py3">>,
     url |-> <<"https://example.com/a1">>,
     filename |-> <<"package-a1.tar.gz">>,
     packagetype |-> <<"sdist">>,
     md5_digest |-> <<"abc123">>,
     digests |-> << [sha256 |-> <<"def456">>] >>,
     size |-> <<"12345">>]

Artifact2 ==
    [upload_time |-> <<"2021-06-01T00:00:00">>,
     upload_time_iso_8601 |-> <<"2021-06-01T00:00:00Z">>,
     python_version |-> <<"source">>,
     url |-> <<"https://example.com/a2">>,
     filename |-> <<"package-a2.whl">>,
     packagetype |-> <<"bdist_wheel">>,
     md5_digest |-> <<"ghi789">>,
     digests |-> << [sha256 |-> <<"jkl012">>] >>,
     size |-> <<"23456">>]

\* an artifact with no 'digests' key
ArtifactNoDigests == [Artifact1 EXCEPT !.digests = <<>>]

\* an artifact whose 'digests' mapping has no 'sha256' key
ArtifactNoSha256 == [Artifact2 EXCEPT !.digests = << [sha256 |-> <<>>] >>]

\* an artifact with no 'url' key
ArtifactNoUrl == [Artifact2 EXCEPT !.url = <<>>]

Artifacts == {Artifact1, ArtifactNoDigests, ArtifactNoSha256, ArtifactNoUrl}

Versions == {"0.9.0", "1.0.0"}

\* the artifact lists of one release
Releases == SeqsUpTo(Artifacts, MaxArtifacts)

\* one item of the `releases` mapping
ReleaseItems == {[version |-> v, release |-> r] : v \in Versions, r \in Releases}

\* the `releases` mappings: distinct versions, any iteration order
ReleaseMaps ==
    {m \in SeqsUpTo(ReleaseItems, Cardinality(Versions)) :
        \A j, k \in 1..Len(m) : j # k => m[j].version # m[k].version}

Info1 ==
    [name |-> <<"Package1">>, version |-> <<"1.0.0">>, summary |-> <<"Description1">>,
     author |-> <<"Author1">>, author_email |-> <<"author1@example.com">>,
     license |-> <<"MIT">>, home_page |-> <<"https://example.com">>,
     keywords |-> <<"example, package">>,
     classifiers |-> <<"Development Status :: 4 - Beta">>,
     requires_python |-> <<">=3.6">>]

Info2 ==
    [name |-> <<"Package2">>, version |-> <<"2.0.0">>, summary |-> <<"Description2">>,
     author |-> <<"Author2">>, author_email |-> <<"author2@example.com">>,
     license |-> <<"MIT">>, home_page |-> <<"https://example.com/package2">>,
     keywords |-> <<"example, package2">>,
     classifiers |-> <<"Development Status :: 5 - Production/Stable">>,
     requires_python |-> <<">=3.6">>]

\* an info record without 'version', 'author' and 'license'
InfoPartial == [Info1 EXCEPT !.version = <<>>, !.author = <<>>, !.license = <<>>]

Infos == {Info1, Info2, InfoPartial}

RequiresDist == <<"requests", "beautifulsoup4">>

Urls == <<"https://example.com/package-1.0.0.tar.gz">>

PackageData(info, releases, requires_dist, urls) ==
    [info |-> info, releases |-> releases, requires_dist |-> requires_dist, urls |-> urls]

\* a `releases` mapping as the registry sends it for a package with two versions
TwoReleases ==
    << [version |-> "0.9.0", release |-> <<Artifact1>>],
       [version |-> "1.0.0", release |-> <<Artifact2, Artifact1>>] >>

\* the decoded payloads get_package_details is checked on: every `releases`
\* mapping under an absent, a matching and a non-matching info.version, and
\* every combination of absent top-level keys and info records
Payloads ==
    {PackageData(i, <<m>>, <<RequiresDist>>, <<Urls>>) :
        i \in {<<>>, <<Info1>>, <<Info2>>}, m \in ReleaseMaps}
    \cup
    {PackageData(i, r, d, u) :
        i \in {<<>>} \cup {<<x>> : x \in Infos},
        r \in {<<>>, <<TwoReleases>>},
        d \in {<<>>, <<RequiresDist>>},
        u \in {<<>>, <<Urls>>}}

\* what the registry does for one package name: the HTTP request fails with
\* `text`, or the body is not JSON and decoding fails with `text`, or the body
\* decodes to `data`
Response(kind, text, data) == [kind |-> kind, text |-> text, data |-> data]

NoData == PackageData(<<>>, <<>>, <<>>, <<>>)

FetchFailure(text) == Response("fetch_error", text, NoData)

DecodeFailure(text) == Response("decode_error", text, NoData)

Decoded(data) == Response("json", "", data)

RequestErrorText == "404 Client Error: Not Found for url"

JSONErrorText == "Expecting value: line 1 column 1 (char 0)"

-----------------------------------------------------------------------------
(* get_package_details: the reshaping of a decoded payload (lines 141-176). *)

\* a completed evaluation: a value, or a raised exception
Ok(v) == [ok |-> TRUE, value |-> v, exc |-> NoExc]

Raise(e) == [ok |-> FALSE, value |-> NONE, exc |-> e]

\* d[key] on a dict without that key; str(KeyError('k')) is "'k'"
KeyError(key) == Exc("KeyError", <<"'", key, "'">>)

\* l[0] on an empty list
IndexError == Exc("IndexError", <<"list index out of range">>)

\* the fields of an older_versions entry after 'version', in the order the dict
\* display evaluates them
FieldOrder == PlainKeys \o <<"sha256_digest", "size">>

\* a subscription of the last artifact of the list instead of the first
PlainFieldOfLast(release, key) ==
    IF release # <<>>
    THEN IF release[Len(release)][key] = <<>>
         THEN Raise(KeyError(key))
         ELSE Ok(release[Len(release)][key][1])
    ELSE Ok(NONE)

\* release[0][key] if release else None
PlainField(release, key) ==
    IF release # <<>>
    THEN IF release[1][key] = <<>> THEN Raise(KeyError(key)) ELSE Ok(release[1][key][1])
    ELSE Ok(NONE)

\* release[0]['digests']['sha256'] if 'digests' in release[0] else None
Sha256Field(release) ==
    IF release = <<>>
    THEN Raise(IndexError)
    ELSE IF release[1].digests # <<>>
         THEN IF release[1].digests[1].sha256 = <<>>
              THEN Raise(KeyError("sha256"))
              ELSE Ok(release[1].digests[1].sha256[1])
         ELSE Ok(NONE)

FieldValue(release, field) ==
    IF field = "sha256_digest" THEN Sha256Field(release) ELSE PlainField(release, field)

\* the dict display of one (version, release) item: the first field whose
\* evaluation raises ends it
OlderVersionEntry(version, release) ==
    LET failed == {j \in 1..Len(FieldOrder) : ~FieldValue(release, FieldOrder[j]).ok}
        first  == CHOOSE j \in failed : \A k \in failed : j <= k
    IN  IF failed # {}
        THEN Raise(FieldValue(release, FieldOrder[first]).exc)
        ELSE Ok([version |-> version,
                 upload_time |-> FieldValue(release, "upload_time").value,
                 upload_time_iso_8601 |-> FieldValue(release, "upload_time_iso_8601").value,
                 python_version |-> FieldValue(release, "python_version").value,
                 url |-> FieldValue(release, "url").value,
                 filename |-> FieldValue(release, "filename").value,
                 packagetype |-> FieldValue(release, "packagetype").value,
                 md5_digest |-> FieldValue(release, "md5_digest").value,
                 sha256_digest |-> FieldValue(release, "sha256_digest").value,
                 size |-> FieldValue(release, "size").value])

\* a comprehension that keeps every version
KeepsEveryVersion(version, current_version) == TRUE

\* the filter of the comprehension: `if version != current_version`
IsOlderVersion(version, current_version) == version # current_version

RECURSIVE older_versions_details(_, _)
\* the list comprehension over releases.items(), in iteration order
older_versions_details(items, current_version) ==
    IF items = <<>>
    THEN Ok(<<>>)
    ELSE IF IsOlderVersion(Head(items).version, current_version)
         THEN LET entry == OlderVersionEntry(Head(items).version, Head(items).release)
                  rest  == older_versions_details(Tail(items), current_version)
              IN  IF ~entry.ok THEN entry
                  ELSE IF ~rest.ok THEN rest
                  ELSE Ok(<<entry.value>> \o rest.value)
         ELSE older_versions_details(Tail(items), current_version)

\* a record that reads 'author' where it should read 'author_email'
InfoGetAuthorTwice(package_data, key) ==
    IF package_data.info = <<>>
    THEN NONE
    ELSE Get(package_data.info[1][IF key = "author_email" THEN "author" ELSE key])

\* package_data.get('info', {}).get(key)
InfoGet(package_data, key) ==
    IF package_data.info = <<>> THEN NONE ELSE Get(package_data.info[1][key])

\* lines 141-176: the details record, or the exception the reshaping raises
details(package_data) ==
    LET current_version == InfoGet(package_data, "version")
        older == older_versions_details(GetList(package_data.releases), current_version)
    IN  IF ~older.ok
        THEN older
        ELSE Ok([name |-> InfoGet(package_data, "name"),
                 version |-> current_version,
                 summary |-> InfoGet(package_data, "summary"),
                 author |-> InfoGet(package_data, "author"),
                 author_email |-> InfoGet(package_data, "author_email"),
                 license |-> InfoGet(package_data, "license"),
                 home_page |-> InfoGet(package_data, "home_page"),
                 keywords |-> InfoGet(package_data, "keywords"),
                 classifiers |-> InfoGet(package_data, "classifiers"),
                 requires_python |-> InfoGet(package_data, "requires_python"),
                 dependencies |-> GetList(package_data.requires_dist),
                 downloads |-> GetList(package_data.urls),
                 older_versions |-> older.value])

-----------------------------------------------------------------------------
(* The caller's view of a call. *)

NoOutcome == [status |-> "none", value |-> NONE, exc |-> NoExc]

Returned(v) == [status |-> "returned", value |-> v, exc |-> NoExc]

Raised(e) == [status |-> "raised", value |-> NONE, exc |-> e]

Usernames == {NONE, "", "alice", "bob"}

\* a call starts with fresh locals
FreshLocals ==
    /\ installs' = <<>>
    /\ stdout' = <<>>
    /\ playwright' = "none"
    /\ browser' = "none"
    /\ visited' = <<>>
    /\ page' = <<>>
    /\ elements' = <<>>
    /\ element_idx' = 1
    /\ packages' = <<>>
    /\ package_idx' = 1
    /\ detailed_packages' = <<>>
    /\ fetches' = <<>>
    /\ reshaped' = <<>>
    /\ cause' = NoExc

\* the caller invokes method `method` with argument `a`; control enters at `entry`
Invoke(method, a, entry) ==
    /\ pc = "idle"
    /\ op' = method
    /\ arg' = a
    /\ pc' = entry
    /\ outcome' = NoOutcome
    /\ FreshLocals
    /\ UNCHANGED <<fields, registry>>

\* __init__ (lines 27-36) has run with any arguments; nothing has been called yet
InitObject ==
    /\ username \in Usernames
    /\ verbose \in BOOLEAN
    /\ auto_install \in BOOLEAN
    /\ op = "__init__"
    /\ arg = NONE
    /\ pc = "idle"
    /\ installs = <<>>
    /\ stdout = <<>>
    /\ playwright = "none"
    /\ browser = "none"
    /\ visited = <<>>
    /\ page = <<>>
    /\ elements = <<>>
    /\ element_idx = 1
    /\ packages = <<>>
    /\ package_idx = 1
    /\ detailed_packages = <<>>
    /\ fetches = <<>>
    /\ reshaped = <<>>
    /\ cause = NoExc
    /\ outcome = NoOutcome

-----------------------------------------------------------------------------
(* set_username, enable_verbose, enable_auto_install (lines 38-58). *)

\* a set_username that passes its check and leaves self.username as it was
StoredUsernameKept(u) == username

\* the new value of self.username when set_username(u) passes its check
StoredUsername(u) == u

\* a set_username that stores the value before it checks it
set_username_unchecked ==
    \E u \in Usernames :
        /\ pc = "idle"
        /\ op' = "set_username"
        /\ arg' = u
        /\ username' = u
        /\ outcome' = IF Falsy(u)
                      THEN Raised(Exc(ErrorKind, <<"Username must be provided">>))
                      ELSE Returned(NONE)
        /\ FreshLocals
        /\ UNCHANGED <<verbose, auto_install, registry, pc>>

set_username ==
    \E u \in Usernames :
        /\ pc = "idle"
        /\ op' = "set_username"
        /\ arg' = u
        /\ IF Falsy(u)
           THEN /\ outcome' = Raised(Exc(ErrorKind, <<"Username must be provided">>))
                /\ username' = username
           ELSE /\ outcome' = Returned(NONE)
                /\ username' = StoredUsername(u)
        /\ FreshLocals
        /\ UNCHANGED <<verbose, auto_install, registry, pc>>

enable_verbose ==
    /\ pc = "idle"
    /\ op' = "enable_verbose"
    /\ arg' = NONE
    /\ verbose' = TRUE
    /\ outcome' = Returned(NONE)
    /\ FreshLocals
    /\ UNCHANGED <<username, auto_install, registry, pc>>

enable_auto_install ==
    /\ pc = "idle"
    /\ op' = "enable_auto_install"
    /\ arg' = NONE
    /\ auto_install' = TRUE
    /\ outcome' = Returned(NONE)
    /\ FreshLocals
    /\ UNCHANGED <<username, verbose, registry, pc>>

-----------------------------------------------------------------------------
(* get_user_packages (lines 60-114). *)

\* the text of an element as inner_text() gives it, and str.strip() of it
PaddedPackage1 == "\n  Package1  \n"

Strip(text) == IF text = PaddedPackage1 THEN "Package1" ELSE text

Snippet(title, description) == [title |-> title, description |-> description]

\* the a.package-snippet elements a profile page can hold; <<>> is a child
\* element that query_selector does not find
Snippets ==
    {Snippet(<<"Package1">>, <<"Description1">>),
     Snippet(<<"Package2">>, <<"Description2">>),
     Snippet(<<PaddedPackage1>>, <<"Description1">>),
     Snippet(<<"missing-package">>, <<"Description3">>),
     Snippet(<<"garbled-package">>, <<"Description4">>),
     Snippet(<<"hollow-package">>, <<"Description5">>),
     Snippet(<<>>, <<"Description1">>),
     Snippet(<<"Package2">>, <<>>)}

\* an element of the document with class package-snippet
Node(tag, snippet) == [tag |-> tag, snippet |-> snippet]

\* the .package-snippet elements a profile document can hold: the anchors, and
\* an element of another tag
Nodes ==
    {Node("a", snippet) : snippet \in Snippets}
    \cup {Node("div", Snippet(<<"Package1">>, <<"Description1">>))}

\* the documents a profile URL can load, in document order; the document of a
\* user without packages has no .package-snippet element
Pages == SeqsUpTo(Nodes, MaxPackages)

\* line 104: page.query_selector_all('a.package-snippet')
Anchors(document) ==
    LET IsAnchor(node) == node.tag = "a"
        kept == SelectSeq(document, IsAnchor)
    IN  [j \in 1..Len(kept) |-> kept[j].snippet]

ProfileUrl(user) == <<"https://pypi.org/user/", user, "/">>

InstallBrowsers == "playwright install"

InstallDeps == "playwright install-deps"

\* str(CalledProcessError) of a failed subprocess.run(..., check=True)
CalledProcessError(command) ==
    Exc("CalledProcessError", <<"Command '", command, "' returned non-zero exit status 1.">>)

\* subprocess.run when there is no `playwright` executable on the PATH
FileNotFoundError ==
    Exc("FileNotFoundError", <<"[Errno 2] No such file or directory: 'playwright'">>)

\* what Playwright raises
LaunchError == Exc("Exception", <<"Playwright error">>)

GotoErrors ==
    {Exc("Error", <<"net::ERR_NAME_NOT_RESOLVED">>),
     Exc("Error", <<"net::ERR_CONNECTION_REFUSED">>)}

TimeoutError == Exc("TimeoutError", <<"Timeout 30000ms exceeded.">>)

\* None.inner_text(): query_selector found no child element
AttributeError ==
    Exc("AttributeError", <<"'NoneType' object has no attribute 'inner_text'">>)

\* line 112: what `except Exception as e` raises
ListingError(e) ==
    Exc(ErrorKind, <<"Error fetching user profile with Playwright: ">> \o e.msg)

\* a handler that drops the text of the error it caught
ListingFailedBare(e) == Exc(ErrorKind, <<"Failed to get user packages">>)

\* line 194: what the aggregator's `except PyPiExtractorError as e` raises
ListingFailed(e) == Exc(ErrorKind, <<"Failed to get user packages: ">> \o e.msg)

\* an exception leaves get_user_packages: to the caller, or into the try of
\* get_all_packages_details (lines 191-194)
ListingRaise(e) ==
    /\ pc' = "idle"
    /\ outcome' =
         IF op = "get_all_packages_details" /\ e.kind = ErrorKind
         THEN Raised(ListingFailed(e))
         ELSE Raised(e)

\* a collaborator raised `e` inside the try of lines 93-112
ListingCaught(e) ==
    /\ cause' = e
    /\ ListingRaise(ListingError(e))

call_get_user_packages == Invoke("get_user_packages", NONE, "gup_check")

\* lines 87-91
gup_check ==
    /\ pc = "gup_check"
    /\ IF Falsy(username)
       THEN ListingRaise(Exc(ErrorKind, <<"Username must be set before fetching packages">>))
       ELSE pc' = "gup_install_browsers" /\ outcome' = outcome
    /\ packages' = <<>>
    /\ UNCHANGED <<fields, registry, op, arg, installs, stdout, playwright, browser, visited, page,
                   elements, element_idx, package_idx, detailed_packages, fetches,
                   reshaped, cause>>

\* a setup that reports a failed browser installation and carries on
gup_install_browsers_lenient ==
    /\ pc = "gup_install_browsers"
    /\ IF auto_install
       THEN /\ installs' = Append(installs, InstallBrowsers)
            /\ \/ /\ stdout' = IF verbose
                               THEN Append(stdout, <<"Playwright browsers installed successfully.">>)
                               ELSE stdout
                  /\ pc' = "gup_install_deps"
                  /\ UNCHANGED <<outcome, cause>>
               \/ /\ stdout' = Append(stdout, <<"Error during Playwright setup: ">>
                                               \o CalledProcessError(InstallBrowsers).msg)
                  /\ cause' = CalledProcessError(InstallBrowsers)
                  /\ pc' = "gup_playwright"
                  /\ UNCHANGED outcome
       ELSE /\ pc' = "gup_playwright"
            /\ UNCHANGED <<installs, stdout, outcome, cause>>
    /\ UNCHANGED <<fields, registry, op, arg, playwright, browser, visited, page, elements,
                   element_idx, packages, package_idx, detailed_packages, fetches, reshaped>>

\* lines 62-67 and 73-75
gup_install_browsers ==
    /\ pc = "gup_install_browsers"
    /\ IF auto_install
       THEN /\ installs' = Append(installs, InstallBrowsers)
            /\ \/ /\ stdout' = IF verbose
                               THEN Append(stdout, <<"Playwright browsers installed successfully.">>)
                               ELSE stdout
                  /\ pc' = "gup_install_deps"
                  /\ UNCHANGED <<outcome, cause>>
               \/ /\ stdout' = Append(stdout, <<"Error during Playwright setup: ">>
                                               \o CalledProcessError(InstallBrowsers).msg)
                  /\ ListingCaught(CalledProcessError(InstallBrowsers))
               \/ /\ stdout' = stdout
                  /\ ListingCaught(FileNotFoundError)
       ELSE /\ pc' = "gup_playwright"
            /\ UNCHANGED <<installs, stdout, outcome, cause>>
    /\ UNCHANGED <<fields, registry, op, arg, playwright, browser, visited, page, elements,
                   element_idx, packages, package_idx, detailed_packages, fetches, reshaped>>

\* lines 69-75
gup_install_deps ==
    /\ pc = "gup_install_deps"
    /\ installs' = Append(installs, InstallDeps)
    /\ \/ /\ stdout' = IF verbose
                       THEN Append(stdout, <<"System dependencies installed successfully.">>)
                       ELSE stdout
          /\ pc' = "gup_playwright"
          /\ UNCHANGED <<outcome, cause>>
       \/ /\ stdout' = Append(stdout, <<"Error during Playwright setup: ">>
                                       \o CalledProcessError(InstallDeps).msg)
          /\ ListingCaught(CalledProcessError(InstallDeps))
       \/ /\ stdout' = stdout
          /\ ListingCaught(FileNotFoundError)
    /\ UNCHANGED <<fields, registry, op, arg, playwright, browser, visited, page, elements,
                   element_idx, packages, package_idx, detailed_packages, fetches, reshaped>>

\* line 96: `with sync_playwright() as p`
gup_playwright ==
    /\ pc = "gup_playwright"
    /\ playwright' = "started"
    /\ pc' = "gup_launch"
    /\ UNCHANGED <<fields, registry, op, arg, installs, stdout, browser, visited, page, elements,
                   element_idx, packages, package_idx, detailed_packages, fetches,
                   reshaped, cause, outcome>>

\* leaving the `with` without ending the browser
LeaveWithBrowserOpen ==
    /\ playwright' = "stopped"
    /\ UNCHANGED browser

\* the `with` of line 96 is left: sync_playwright().__exit__ stops the Playwright
\* driver, and a browser that browser.close() has not closed ends with it
LeaveWith ==
    /\ playwright' = "stopped"
    /\ browser' = IF browser = "open" THEN "terminated" ELSE browser

\* lines 97-99: launch, new_context, new_page; an exception leaves the `with`
gup_launch ==
    /\ pc = "gup_launch"
    /\ \/ /\ browser' = "open"
          /\ pc' = "gup_goto"
          /\ UNCHANGED <<playwright, outcome, cause>>
       \/ /\ LeaveWith
          /\ ListingCaught(LaunchError)
    /\ UNCHANGED <<fields, registry, op, arg, installs, stdout, visited, page, elements,
                   element_idx, packages, package_idx, detailed_packages, fetches, reshaped>>

\* line 101: the document loads, or the navigation fails
gup_goto ==
    /\ pc = "gup_goto"
    /\ visited' = Append(visited, ProfileUrl(username))
    /\ \/ \E document \in Pages :
            /\ page' = document
            /\ pc' = "gup_wait"
            /\ UNCHANGED <<playwright, browser, outcome, cause>>
       \/ \E e \in GotoErrors :
            /\ LeaveWith
            /\ ListingCaught(e)
            /\ UNCHANGED page
    /\ UNCHANGED <<fields, registry, op, arg, installs, stdout, elements,
                   element_idx, packages, package_idx, detailed_packages, fetches, reshaped>>

\* line 102: wait_for_selector('.package-snippet') finds an element of the document
SelectorAppears(document) == document # <<>>

\* lines 102-104: the selector appears and the anchors are queried, or the wait
\* times out (it always does when the document has no such element)
gup_wait ==
    /\ pc = "gup_wait"
    /\ \/ /\ SelectorAppears(page)
          /\ elements' = Anchors(page)
          /\ element_idx' = 1
          /\ pc' = "gup_extract"
          /\ UNCHANGED <<playwright, browser, outcome, cause>>
       \/ /\ LeaveWith
          /\ ListingCaught(TimeoutError)
          /\ UNCHANGED <<elements, element_idx>>
    /\ UNCHANGED <<fields, registry, op, arg, installs, stdout, visited, page,
                   packages, package_idx, detailed_packages, fetches, reshaped>>

\* lines 106-108: the dict appended for one element
PackageSummary(element) ==
    [name |-> Strip(element.title[1]), summary |-> Strip(element.description[1])]

\* a loop that takes None for the text of a child element it does not find
gup_extract_lenient ==
    /\ pc = "gup_extract"
    /\ IF element_idx > Len(elements)
       THEN /\ pc' = "gup_close"
            /\ UNCHANGED <<element_idx, packages>>
       ELSE /\ packages' = Append(packages,
                              [name |-> Strip(Get(elements[element_idx].title)),
                               summary |-> Strip(Get(elements[element_idx].description))])
            /\ element_idx' = element_idx + 1
            /\ UNCHANGED pc
    /\ UNCHANGED <<fields, registry, op, arg, installs, stdout, playwright, browser, visited,
                   page, elements, package_idx, detailed_packages, fetches, reshaped,
                   cause, outcome>>

\* lines 105-108: one turn of `for element in elements`
gup_extract ==
    /\ pc = "gup_extract"
    /\ IF element_idx > Len(elements)
       THEN /\ pc' = "gup_close"
            /\ UNCHANGED <<element_idx, packages, playwright, browser, outcome, cause>>
       ELSE IF elements[element_idx].title = <<>> \/ elements[element_idx].description = <<>>
            THEN /\ LeaveWith
                 /\ ListingCaught(AttributeError)
                 /\ UNCHANGED <<element_idx, packages>>
            ELSE /\ packages' = Append(packages, PackageSummary(elements[element_idx]))
                 /\ element_idx' = element_idx + 1
                 /\ UNCHANGED <<pc, playwright, browser, outcome, cause>>
    /\ UNCHANGED <<fields, registry, op, arg, installs, stdout, visited, page, elements,
                   package_idx, detailed_packages, fetches, reshaped>>

\* get_user_packages returns `packages`: to the caller, or to line 192
ListingReturn ==
    IF op = "get_all_packages_details"
    THEN pc' = "gapd_listed" /\ outcome' = outcome
    ELSE pc' = "idle" /\ outcome' = Returned(packages)

\* lines 110-114: browser.close(), the `with` ends, return
gup_close ==
    /\ pc = "gup_close"
    /\ browser' = "closed"
    /\ playwright' = "stopped"
    /\ ListingReturn
    /\ UNCHANGED <<fields, registry, op, arg, installs, stdout, visited, page, elements,
                   element_idx, packages, package_idx, detailed_packages, fetches,
                   reshaped, cause>>

-----------------------------------------------------------------------------
(* get_package_details (lines 116-176), called by the caller or from the loop *)
(* of get_all_packages_details.                                              *)

\* a loop that requests the first listed package on every turn
package_name_first ==
    IF op = "get_all_packages_details" THEN packages[1].name ELSE arg

\* the package_name argument of the running get_package_details
package_name ==
    IF op = "get_all_packages_details" THEN packages[package_idx].name ELSE arg

\* a handler that drops the text of the error it caught
FetchErrorBare(text) == Exc(ErrorKind, <<"Error fetching package details">>)

\* line 134
FetchError(text) == Exc(ErrorKind, <<"Error fetching package details: ", text>>)

\* line 139
DecodeError(text) == Exc(ErrorKind, <<"Error decoding JSON response: ", text>>)

\* line 205: what the aggregator's `except PyPiExtractorError as e` raises
DetailsFailed(name, e) ==
    Exc(ErrorKind, <<"Failed to get details for package '", name, "': ">> \o e.msg)

\* the exceptions the handler of lines 204-205 catches
CaughtByAggregator(e) == e.kind = ErrorKind

\* an exception leaves get_package_details: to the caller, or into the try of
\* lines 201-205
DetailsRaise(e) ==
    /\ pc' = "idle"
    /\ outcome' =
         IF op = "get_all_packages_details" /\ CaughtByAggregator(e)
         THEN Raised(DetailsFailed(package_name, e))
         ELSE Raised(e)
    /\ UNCHANGED <<detailed_packages, package_idx>>

\* a loop that puts each record in front of the earlier ones
Prepended(list, record) == <<record>> \o list

\* line 203: the list after detailed_packages.append(record)
Appended(list, record) == Append(list, record)

\* get_package_details returns `record`: to the caller, or to line 203
DetailsReturn(record) ==
    IF op = "get_all_packages_details"
    THEN /\ detailed_packages' = Appended(detailed_packages, record)
         /\ package_idx' = package_idx + 1
         /\ pc' = "gapd_loop"
         /\ outcome' = outcome
    ELSE /\ pc' = "idle"
         /\ outcome' = Returned(record)
         /\ UNCHANGED <<detailed_packages, package_idx>>

call_get_package_details ==
    \E name \in DOMAIN registry : Invoke("get_package_details", name, "gpd_request")

\* a get_package_details that, like the listing, wants a username first
gpd_request_needs_username ==
    /\ pc = "gpd_request"
    /\ IF Falsy(username)
       THEN /\ DetailsRaise(Exc(ErrorKind, <<"Username must be set before fetching package details">>))
            /\ UNCHANGED <<fetches, cause>>
       ELSE /\ fetches' = Append(fetches, package_name)
            /\ IF registry[package_name].kind = "fetch_error"
               THEN /\ cause' = Exc("RequestException", <<registry[package_name].text>>)
                    /\ DetailsRaise(FetchError(registry[package_name].text))
               ELSE /\ pc' = "gpd_json"
                    /\ UNCHANGED <<cause, outcome, detailed_packages, package_idx>>
    /\ UNCHANGED <<fields, registry, op, arg, installs, stdout, playwright, browser, visited, page,
                   elements, element_idx, packages, reshaped>>

\* lines 129-134: requests.get and raise_for_status
gpd_request ==
    /\ pc = "gpd_request"
    /\ fetches' = Append(fetches, package_name)
    /\ IF registry[package_name].kind = "fetch_error"
       THEN /\ cause' = Exc("RequestException", <<registry[package_name].text>>)
            /\ DetailsRaise(FetchError(registry[package_name].text))
       ELSE /\ pc' = "gpd_json"
            /\ UNCHANGED <<cause, outcome, detailed_packages, package_idx>>
    /\ UNCHANGED <<fields, registry, op, arg, installs, stdout, playwright, browser, visited, page,
                   elements, element_idx, packages, reshaped>>

\* lines 136-139: response.json()
gpd_json ==
    /\ pc = "gpd_json"
    /\ IF registry[package_name].kind = "decode_error"
       THEN /\ cause' = Exc("JSONDecodeError", <<registry[package_name].text>>)
            /\ DetailsRaise(DecodeError(registry[package_name].text))
       ELSE /\ pc' = "gpd_reshape"
            /\ UNCHANGED <<cause, outcome, detailed_packages, package_idx>>
    /\ UNCHANGED <<fields, registry, op, arg, installs, stdout, playwright, browser, visited, page,
                   elements, element_idx, packages, fetches, reshaped>>

\* lines 141-176
gpd_reshape ==
    /\ pc = "gpd_reshape"
    /\ reshaped' = Append(reshaped, package_name)
    /\ LET result == details(registry[package_name].data)
       IN  IF result.ok
           THEN /\ DetailsReturn(result.value)
                /\ UNCHANGED cause
           ELSE /\ cause' = result.exc
                /\ DetailsRaise(result.exc)
    /\ UNCHANGED <<fields, registry, op, arg, installs, stdout, playwright, browser, visited, page,
                   elements, element_idx, packages, fetches>>

-----------------------------------------------------------------------------
(* get_all_packages_details (lines 178-206). *)

call_get_all_packages_details == Invoke("get_all_packages_details", NONE, "gapd_check")

\* a check that takes only None for a missing username
UsernameIsNone == username = NONE

\* the condition of line 188
UsernameMissing == Falsy(username)

\* lines 188-192
gapd_check ==
    /\ pc = "gapd_check"
    /\ IF UsernameMissing
       THEN /\ pc' = "idle"
            /\ outcome' = Raised(Exc(ErrorKind,
                              <<"Username must be set before fetching package details">>))
       ELSE /\ pc' = "gup_check"
            /\ outcome' = outcome
    /\ UNCHANGED <<fields, registry, op, arg, locals>>

\* line 197
NoPackagesError(user) ==
    Exc(ErrorKind, <<"No packages found for user/organization '", user, "'">>)

\* a check that never finds the listing empty
NeverEmpty(list) == FALSE

\* the condition of line 196: `not packages`
NoPackages(list) == list = <<>>

\* lines 196-199
gapd_listed ==
    /\ pc = "gapd_listed"
    /\ IF NoPackages(packages)
       THEN /\ pc' = "idle"
            /\ outcome' = Raised(NoPackagesError(username))
       ELSE /\ pc' = "gapd_loop"
            /\ outcome' = outcome
    /\ detailed_packages' = <<>>
    /\ package_idx' = 1
    /\ UNCHANGED <<fields, registry, op, arg, installs, stdout, playwright, browser, visited, page,
                   elements, element_idx, packages, fetches, reshaped, cause>>

\* lines 200-202 and 206: one turn of `for package in packages`
gapd_loop ==
    /\ pc = "gapd_loop"
    /\ IF package_idx > Len(packages)
       THEN /\ pc' = "idle"
            /\ outcome' = Returned(detailed_packages)
       ELSE /\ pc' = "gpd_request"
            /\ outcome' = outcome
    /\ UNCHANGED <<fields, registry, op, arg, locals>>

-----------------------------------------------------------------------------
(* The registry the object is run against, and the specification. *)

HollowData ==
    PackageData(<<Info1>>,
                << << [version |-> "0.9.0", release |-> <<>>],
                      [version |-> "1.0.0", release |-> <<Artifact1>>] >> >>,
                <<RequiresDist>>, <<Urls>>)

Package1Data ==
    PackageData(<<Info1>>,
                << << [version |-> "0.9.0", release |-> <<Artifact1>>],
                      [version |-> "1.0.0", release |-> <<Artifact2>>] >> >>,
                <<RequiresDist>>, <<Urls>>)

Package2Data ==
    PackageData(<<Info2>>,
                << << [version |-> "1.0.0", release |-> <<Artifact1>>],
                      [version |-> "2.0.0", release |-> <<Artifact2>>] >> >>,
                <<RequiresDist>>, <<Urls>>)

PackageNames ==
    {"Package1", "Package2", "missing-package", "garbled-package", "hollow-package"}

SampleRegistry ==
    [n \in PackageNames |->
        CASE n = "Package1" -> Decoded(Package1Data)
          [] n = "Package2" -> Decoded(Package2Data)
          [] n = "missing-package" -> FetchFailure(RequestErrorText)
          [] n = "garbled-package" -> DecodeFailure(JSONErrorText)
          [] n = "hollow-package" -> Decoded(HollowData)]

Init ==
    /\ InitObject
    /\ registry = SampleRegistry

Next ==
    \/ set_username
    \/ enable_verbose
    \/ enable_auto_install
    \/ call_get_user_packages
    \/ gup_check
    \/ gup_install_browsers
    \/ gup_install_deps
    \/ gup_playwright
    \/ gup_launch
    \/ gup_goto
    \/ gup_wait
    \/ gup_extract
    \/ gup_close
    \/ call_get_package_details
    \/ gpd_request
    \/ gpd_json
    \/ gpd_reshape
    \/ call_get_all_packages_details
    \/ gapd_check
    \/ gapd_listed
    \/ gapd_loop

Spec == Init /\ [][Next]_vars

(* get_package_details alone, against every response of the bounded registry. *)

Responses ==
    {FetchFailure(RequestErrorText), DecodeFailure(JSONErrorText)}
    \cup {Decoded(data) : data \in Payloads}

InitDetails ==
    /\ InitObject
    /\ username = NONE
    /\ ~verbose
    /\ ~auto_install
    /\ registry \in {[n \in {"Package1"} |-> r] : r \in Responses}

NextDetails ==
    \/ call_get_package_details
    \/ gpd_request
    \/ gpd_json
    \/ gpd_reshape

SpecDetails == InitDetails /\ [][NextDetails]_vars

-----------------------------------------------------------------------------
(* Properties of get_package_details, checked under SpecDetails. *)

\* a call of `method` has ended and the caller holds its outcome
Ended(method) == op = method /\ pc = "idle" /\ outcome.status # "none"

\* the payload the registry holds for the argument of get_package_details
Payload == registry[arg].data

\* get_package_details has ended and the registry answered with JSON
DetailsEnded == Ended("get_package_details") /\ registry[arg].kind = "json"

\* info.version of the payload, None when there is none
InfoVersion ==
    IF Payload.info = <<>> THEN NONE
    ELSE IF Payload.info[1].version = <<>> THEN NONE
    ELSE Payload.info[1].version[1]

\* the items of the payload's releases mapping, in iteration order
ReleaseList == IF Payload.releases = <<>> THEN <<>> ELSE Payload.releases[1]

\* the positions of the releases mapping whose key is not info.version
OlderPositions == {j \in 1..Len(ReleaseList) : ReleaseList[j].version # InfoVersion}

\* the keys of the releases mapping other than info.version, in iteration order
OlderKeys ==
    LET NotCurrent(item) == item.version # InfoVersion
        kept == SelectSeq(ReleaseList, NotCurrent)
    IN  [j \in 1..Len(kept) |-> kept[j].version]

\* the version column of a returned older_versions list
VersionsOf(older_versions) == [j \in 1..Len(older_versions) |-> older_versions[j].version]

\* C1: whenever get_package_details returns, the versions of older_versions are
\* the keys of the releases mapping other than info.version, each once, in the
\* mapping's iteration order, and info.version is not among them.
C1_OlderVersionsAreTheOtherKeys ==
    (DetailsEnded /\ outcome.status = "returned") =>
        /\ VersionsOf(outcome.value.older_versions) = OlderKeys
        /\ \A j \in 1..Len(outcome.value.older_versions) :
              outcome.value.older_versions[j].version # InfoVersion

\* C1 witness: a returned record for a payload whose releases hold info.version
\* and another version
C1_Witness ==
    /\ DetailsEnded
    /\ outcome.status = "returned"
    /\ Len(ReleaseList) = 2
    /\ ReleaseList[2].version = InfoVersion
    /\ Len(outcome.value.older_versions) = 1

\* C1 witness of the order: a returned record with two older versions
C1_WitnessTwoOlder ==
    /\ DetailsEnded
    /\ outcome.status = "returned"
    /\ Len(outcome.value.older_versions) = 2
    /\ outcome.value.older_versions[1].version = "1.0.0"

\* the first artifact of every non-empty older release has every key the code
\* subscripts, so that nothing but an empty list or a missing sha256 can fail
OtherwiseComplete ==
    \A j \in OlderPositions :
        ReleaseList[j].release # <<>> =>
            /\ \A k \in 1..Len(PlainKeys) : ReleaseList[j].release[1][PlainKeys[k]] # <<>>
            /\ ReleaseList[j].release[1].size # <<>>

\* every first artifact that has a digests mapping has sha256 in it
Sha256Present ==
    \A j \in OlderPositions :
        (ReleaseList[j].release # <<>> /\ ReleaseList[j].release[1].digests # <<>>) =>
            ReleaseList[j].release[1].digests[1].sha256 # <<>>

\* the entry of older_versions for `version` has every artifact field None
AllFieldsNone(entry) ==
    /\ \A k \in 1..Len(PlainKeys) : entry[PlainKeys[k]] = NONE
    /\ entry.sha256_digest = NONE
    /\ entry.size = NONE

\* C2 (as claimed): when a non-current version has an empty artifact list (and
\* the payload is otherwise complete), get_package_details returns, and the
\* older_versions entry of that version has its version and None in every
\* artifact field.
C2_EmptyReleaseGivesNullEntry ==
    (DetailsEnded /\ OtherwiseComplete /\ Sha256Present) =>
        \A j \in OlderPositions :
            ReleaseList[j].release = <<>> =>
                /\ outcome.status = "returned"
                /\ \E k \in 1..Len(outcome.value.older_versions) :
                      /\ outcome.value.older_versions[k].version = ReleaseList[j].version
                      /\ AllFieldsNone(outcome.value.older_versions[k])

\* what the code does there: the call ends with a bare IndexError
C2_EmptyReleaseRaisesIndexError ==
    (DetailsEnded /\ OtherwiseComplete /\ Sha256Present
        /\ \E j \in OlderPositions : ReleaseList[j].release = <<>>) =>
        outcome = Raised(IndexError)

\* the first artifact of the release lacks digests.sha256
LacksSha256(release) ==
    /\ release # <<>>
    /\ \/ release[1].digests = <<>>
       \/ release[1].digests[1].sha256 = <<>>

\* no older release is empty
NoEmptyRelease == \A j \in OlderPositions : ReleaseList[j].release # <<>>

\* C3 (as claimed): when the first artifact of a non-current version lacks
\* digests.sha256, whether digests is absent or has no sha256 key (and the
\* payload is otherwise complete), get_package_details returns and the
\* sha256_digest of that entry is None.
C3_MissingSha256GivesNull ==
    (DetailsEnded /\ OtherwiseComplete /\ NoEmptyRelease) =>
        \A j \in OlderPositions :
            LacksSha256(ReleaseList[j].release) =>
                /\ outcome.status = "returned"
                /\ \E k \in 1..Len(outcome.value.older_versions) :
                      /\ outcome.value.older_versions[k].version = ReleaseList[j].version
                      /\ outcome.value.older_versions[k].sha256_digest = NONE

\* what the code does: an absent digests mapping gives None, a digests mapping
\* without sha256 ends the call with a bare KeyError
C3_AbsentDigestsGivesNull ==
    (DetailsEnded /\ OtherwiseComplete /\ NoEmptyRelease) =>
        IF Sha256Present
        THEN /\ outcome.status = "returned"
             /\ \A j \in 1..Len(outcome.value.older_versions) :
                   LET item == ReleaseList[CHOOSE p \in OlderPositions :
                                   ReleaseList[p].version
                                     = outcome.value.older_versions[j].version]
                   IN  item.release[1].digests = <<>> =>
                           outcome.value.older_versions[j].sha256_digest = NONE
        ELSE outcome = Raised(KeyError("sha256"))

-----------------------------------------------------------------------------
(* Properties of the object and of get_all_packages_details, checked under  *)
(* Spec.                                                                    *)

AggregationEnded == Ended("get_all_packages_details")

\* the names of the listed packages, in listing order
ListedNames == [j \in 1..Len(packages) |-> packages[j].name]

\* get_package_details(name) returns a record
DetailSucceeds(name) ==
    /\ registry[name].kind = "json"
    /\ details(registry[name].data).ok

\* C4: when the username is set, the listing returned n >= 1 packages and every
\* detail call succeeds, get_all_packages_details returns n records, the i-th
\* being what get_package_details gives for the i-th listed name.
C4_OneRecordPerListedPackage ==
    (/\ AggregationEnded
     /\ ~Falsy(username)
     /\ browser = "closed"
     /\ Len(packages) >= 1
     /\ \A j \in 1..Len(packages) : DetailSucceeds(packages[j].name)) =>
        /\ outcome.status = "returned"
        /\ Len(outcome.value) = Len(packages)
        /\ fetches = ListedNames
        /\ \A j \in 1..Len(packages) :
              outcome.value[j] = details(registry[packages[j].name].data).value

\* C4 witness: two different packages listed, two records returned
C4_Witness ==
    /\ AggregationEnded
    /\ outcome.status = "returned"
    /\ ListedNames = <<"Package1", "Package2">>
    /\ Len(outcome.value) = 2
    /\ outcome.value[2].name = "Package2"

\* a detail call of the running or ended aggregation failed: something was
\* raised after the first request was issued
DetailFailed == fetches # <<>> /\ outcome.status = "raised"

\* C5 (as claimed): if the detail call of the k-th listed package fails, the
\* aggregation fails with an error whose message names that package, returns
\* no record, and has requested exactly the first k listed packages.
C5_FailureNamesThePackage ==
    (AggregationEnded /\ DetailFailed) =>
        /\ outcome.status = "raised"
        /\ Contains(outcome.exc.msg, packages[package_idx].name)
        /\ fetches = SubSeq(ListedNames, 1, package_idx)

\* what the code does: the name is in the message only when the detail call
\* raised the package's own error; the first k packages were requested anyway
C5_FailureNamesThePackageIfWrapped ==
    (AggregationEnded /\ DetailFailed) =>
        /\ cause # NoExc
        /\ fetches = SubSeq(ListedNames, 1, package_idx)
        /\ IF cause.kind \in {"RequestException", "JSONDecodeError"}
           THEN /\ outcome.exc.kind = ErrorKind
                /\ Contains(outcome.exc.msg, packages[package_idx].name)
           ELSE outcome.exc = cause

\* the public methods that fetch
Fetching == {"get_user_packages", "get_package_details", "get_all_packages_details"}

\* the message ends with the text of the cause
CarriesCause(msg, e) ==
    /\ Len(e.msg) <= Len(msg)
    /\ SubSeq(msg, Len(msg) - Len(e.msg) + 1, Len(msg)) = e.msg

\* C6 (as claimed): every failing outcome of the three fetching methods is an
\* error of the package's own kind that carries the message of its cause; no
\* lower-level exception reaches the caller.
C6_EveryFailureIsWrapped ==
    (op \in Fetching /\ pc = "idle" /\ outcome.status = "raised") =>
        /\ outcome.exc.kind = ErrorKind
        /\ cause # NoExc => CarriesCause(outcome.exc.msg, cause)

\* what the code does: only the exceptions of the reshaping escape unwrapped
C6_OnlyReshapingEscapes ==
    (op \in Fetching /\ pc = "idle" /\ outcome.status = "raised") =>
        IF cause.kind \in {"KeyError", "IndexError"}
        THEN outcome.exc = cause /\ reshaped # <<>>
        ELSE /\ outcome.exc.kind = ErrorKind
             /\ cause # NoExc => CarriesCause(outcome.exc.msg, cause)

\* nothing outside the object has been touched during this call
NothingDone ==
    /\ installs = <<>>
    /\ playwright = "none"
    /\ browser = "none"
    /\ visited = <<>>
    /\ fetches = <<>>
    /\ reshaped = <<>>

\* C7: get_all_packages_details with no username (None or empty) fails with
\* 'Username must be set before fetching package details', and no installation,
\* browser launch, listing fetch or detail fetch happens during the call.
C7_NoUsernameFailsFirst ==
    (op = "get_all_packages_details" /\ Falsy(username)) =>
        /\ NothingDone
        /\ pc \in {"gapd_check", "idle"}
        /\ pc = "idle" =>
              outcome = Raised(Exc(ErrorKind,
                            <<"Username must be set before fetching package details">>))

\* C7 witness: the call has ended on an object constructed without a username
C7_Witness == AggregationEnded /\ username = NONE /\ outcome.status = "raised"

\* C8: set_username with None or an empty string fails with 'Username must be
\* provided' and changes none of username, verbose and auto_install.
C8_FalsyUsernameRejected ==
    [][(op' = "set_username" /\ Falsy(arg')) =>
          /\ outcome' = Raised(Exc(ErrorKind, <<"Username must be provided">>))
          /\ UNCHANGED fields]_vars

\* C8 witness: set_username("") has ended on an object whose username is set
C8_Witness ==
    /\ Ended("set_username")
    /\ arg = ""
    /\ username = "alice"
    /\ outcome.status = "raised"

\* the listing step of the aggregation completed with no package
ListedNothing ==
    op = "get_all_packages_details" /\ browser = "closed" /\ packages = <<>>

\* C9: if the listing completes with zero packages, get_all_packages_details
\* fails with an error whose message contains the username, and requests no
\* package.
C9_EmptyListingFails ==
    ListedNothing =>
        /\ fetches = <<>>
        /\ pc \in {"gapd_listed", "idle"}
        /\ pc = "idle" =>
              /\ outcome.status = "raised"
              /\ outcome.exc.kind = ErrorKind
              /\ Contains(outcome.exc.msg, username)

\* C9 witness: the aggregation ended after an empty listing
C9_Witness == ListedNothing /\ pc = "idle" /\ username = "bob"

\* the listing step failed with a transport failure: page.goto raised
TransportFailure == cause \in GotoErrors

\* C10: if the listing fails with a transport failure of text T,
\* get_all_packages_details fails with an error whose message contains T, and
\* requests no package.
C10_TransportFailureReported ==
    (op = "get_all_packages_details" /\ TransportFailure) =>
        /\ pc = "idle"
        /\ outcome.status = "raised"
        /\ outcome.exc.kind = ErrorKind
        /\ Contains(outcome.exc.msg, cause.msg[1])
        /\ fetches = <<>>

\* C10 witness: the aggregation ended after page.goto could not connect
C10_Witness ==
    /\ AggregationEnded
    /\ cause = Exc("Error", <<"net::ERR_CONNECTION_REFUSED">>)

-----------------------------------------------------------------------------
(* Properties of get_user_packages and of the messages of get_package_details, *)
(* checked under Spec.                                                         *)

ListingEnded == Ended("get_user_packages")

\* C11 (as claimed): when the listing fetch fails with an error of text T,
\* get_user_packages fails with 'Error fetching user profile: ' immediately
\* followed by T.
C11_ListingErrorMessage ==
    (ListingEnded /\ cause \in GotoErrors) =>
        /\ outcome.status = "raised"
        /\ IsConcat(outcome.exc.msg, <<"Error fetching user profile: ">>, cause.msg)

\* what the code does: the text before T is 'Error fetching user profile with
\* Playwright: '
C11_ListingErrorMessageWithPlaywright ==
    (ListingEnded /\ cause # NoExc) =>
        /\ outcome.status = "raised"
        /\ outcome.exc.kind = ErrorKind
        /\ IsConcat(outcome.exc.msg,
                    <<"Error fetching user profile with Playwright: ">>, cause.msg)

\* the response kinds for which get_package_details fails before the reshaping
Unusable == {"fetch_error", "decode_error"}

\* C12: get_package_details fails with 'Error fetching package details: ' and
\* the cause's text when the request or its status check fails, and with
\* 'Error decoding JSON response: ' and the cause's text when the body is not
\* JSON; in both cases nothing is returned and the reshaping is not reached.
C12_FetchAndDecodeErrors ==
    (Ended("get_package_details") /\ registry[arg].kind \in Unusable) =>
        /\ outcome.status = "raised"
        /\ outcome.exc.kind = ErrorKind
        /\ cause.msg = <<registry[arg].text>>
        /\ outcome.exc.msg =
             IF registry[arg].kind = "fetch_error"
             THEN <<"Error fetching package details: ">> \o cause.msg
             ELSE <<"Error decoding JSON response: ">> \o cause.msg
        /\ reshaped = <<>>
        /\ fetches = <<arg>>

\* C12 witness: the call ended on a body that is not JSON
C12_Witness ==
    /\ Ended("get_package_details")
    /\ registry[arg].kind = "decode_error"
    /\ cause.kind = "JSONDecodeError"

\* C12 witness of the other case: the request failed
C12_WitnessFetch ==
    /\ Ended("get_package_details")
    /\ registry[arg].kind = "fetch_error"
    /\ cause.kind = "RequestException"

\* C13: get_user_packages with no username fails with 'Username must be set
\* before fetching packages'; no installation is run and no browser resource
\* is acquired during the call.
C13_NoUsernameNoListing ==
    (op = "get_user_packages" /\ (username = NONE \/ username = "")) =>
        /\ NothingDone
        /\ pc \in {"gup_check", "idle"}
        /\ pc = "idle" =>
              outcome = Raised(Exc(ErrorKind,
                            <<"Username must be set before fetching packages">>))

\* C13 witness: the call has ended on an object whose username is empty
C13_Witness == ListingEnded /\ username = "" /\ outcome.status = "raised"

\* the anchors of the loaded document, in document order
ListedAnchors ==
    LET IsListed(node) == node.tag = "a"
        kept == SelectSeq(page, IsListed)
    IN  [j \in 1..Len(kept) |-> kept[j].snippet]

\* every listed anchor has its title and its description element
AnchorsComplete ==
    \A j \in 1..Len(ListedAnchors) :
        ListedAnchors[j].title # <<>> /\ ListedAnchors[j].description # <<>>

\* the entries get_user_packages is to return for the loaded document
ExpectedSummaries ==
    [j \in 1..Len(ListedAnchors) |->
        [name |-> Strip(ListedAnchors[j].title[1]),
         summary |-> Strip(ListedAnchors[j].description[1])]]

\* the listing surface was fetched: the document loaded, and the wait did not
\* time out on a document that holds the selector
FetchedSuccessfully ==
    /\ visited # <<>>
    /\ cause \notin GotoErrors
    /\ ~(cause = TimeoutError /\ page # <<>>)

\* C14 (as claimed): when the username is set and the listing surface is
\* fetched, get_user_packages returns one {name, summary} entry per listed
\* package in listing order, and the empty list when the user has no package.
C14_OneEntryPerListedPackage ==
    (ListingEnded /\ ~Falsy(username) /\ FetchedSuccessfully /\ AnchorsComplete) =>
        /\ outcome.status = "returned"
        /\ outcome.value = ExpectedSummaries

\* what the code does: a document without any .package-snippet element makes
\* the wait of line 102 time out, and the call fails; every other document
\* gives one entry per anchor in document order
C14_OneEntryPerListedPackageUnlessNone ==
    (ListingEnded /\ ~Falsy(username) /\ FetchedSuccessfully /\ AnchorsComplete) =>
        IF page = <<>>
        THEN outcome = Raised(ListingError(TimeoutError))
        ELSE outcome.status = "returned" /\ outcome.value = ExpectedSummaries

\* C15: with a username set, get_user_packages fails with the package's error or
\* returns a list whose entries have a name and a summary that are strings; it
\* fails when a listed element lacks its title or description element.
C15_NoMalformedEntries ==
    (ListingEnded /\ ~Falsy(username)) =>
        /\ outcome.status = "raised" => outcome.exc.kind = ErrorKind
        /\ outcome.status = "returned" =>
              \A j \in 1..Len(outcome.value) :
                  /\ DOMAIN outcome.value[j] = {"name", "summary"}
                  /\ outcome.value[j].name \in STRING
                  /\ outcome.value[j].name # NONE
                  /\ outcome.value[j].summary \in STRING
                  /\ outcome.value[j].summary # NONE
        /\ (\E j \in 1..Len(elements) :
               elements[j].title = <<>> \/ elements[j].description = <<>>) =>
              outcome.status = "raised"

\* C15 witness: the call failed on an element without its title element
C15_Witness ==
    /\ ListingEnded
    /\ outcome.status = "raised"
    /\ cause = AttributeError
    /\ \E j \in 1..Len(elements) : elements[j].title = <<>>

\* the positions inside the `with` block of get_user_packages
InsideWith == {"gup_launch", "gup_goto", "gup_wait", "gup_extract", "gup_close"}

-----------------------------------------------------------------------------
(* The passthrough fields and the first-artifact rule of get_package_details, *)
(* checked under SpecDetails.                                                 *)

\* the keys get_package_details reads from the info record
InfoKeys ==
    {"name", "version", "summary", "author", "author_email", "license", "home_page",
     "keywords", "classifiers", "requires_python"}

\* the payload's info[key], None when the key or the info record is absent
InfoValue(key) ==
    IF Payload.info = <<>> THEN NONE
    ELSE IF Payload.info[1][key] = <<>> THEN NONE
    ELSE Payload.info[1][key][1]

\* the payload's list under a top-level key, the empty list when it is absent
TopLevelList(opt) == IF opt = <<>> THEN <<>> ELSE opt[1]

\* some non-current release cannot be reshaped: its list is empty, or its first
\* artifact lacks a key the code subscripts
ReleaseUnreadable ==
    \E j \in OlderPositions :
        \/ ReleaseList[j].release = <<>>
        \/ \E k \in 1..Len(PlainKeys) : ReleaseList[j].release[1][PlainKeys[k]] = <<>>
        \/ ReleaseList[j].release[1].size = <<>>
        \/ /\ ReleaseList[j].release[1].digests # <<>>
           /\ ReleaseList[j].release[1].digests[1].sha256 = <<>>

\* C17: for every decoded payload, a returned record has name, version,
\* summary, author, author_email, license, home_page, keywords, classifiers and
\* requires_python equal to the payload's info values, dependencies equal to
\* the payload's requires_dist and downloads equal to its urls, with None (or
\* the empty list) for whatever is absent, an absent info record included; and
\* no absence among these makes the call fail: a call that raises does so
\* because of the releases mapping.
C17_PassthroughFields ==
    DetailsEnded =>
        /\ outcome.status = "returned" =>
              /\ \A key \in InfoKeys : outcome.value[key] = InfoValue(key)
              /\ outcome.value.dependencies = TopLevelList(Payload.requires_dist)
              /\ outcome.value.downloads = TopLevelList(Payload.urls)
        /\ outcome.status = "raised" => ReleaseUnreadable
        /\ Payload.releases = <<>> => outcome.status = "returned"

\* C17 witness: a returned record for a payload whose info lacks author and
\* license and that has no requires_dist
C17_Witness ==
    /\ DetailsEnded
    /\ outcome.status = "returned"
    /\ Payload.info = <<InfoPartial>>
    /\ Payload.requires_dist = <<>>
    /\ Payload.urls = <<Urls>>
    /\ outcome.value.name = "Package1"
    /\ outcome.value.author_email = "author1@example.com"
    /\ outcome.value.author = NONE
    /\ outcome.value.dependencies = <<>>
    /\ outcome.value.downloads = Urls

\* C17 witness of the absent info record
C17_WitnessNoInfo ==
    /\ DetailsEnded
    /\ outcome.status = "returned"
    /\ Payload.info = <<>>
    /\ \A key \in InfoKeys : outcome.value[key] = NONE

\* the items of the releases mapping that older_versions has an entry for
OlderItems ==
    LET NotCurrent(item) == item.version # InfoVersion
    IN  SelectSeq(ReleaseList, NotCurrent)

\* artifact[key] of the payload, with a marker no record field equals when the
\* artifact has no such key
Subscripted(opt) == IF opt = <<>> THEN "<KeyError>" ELSE opt[1]

\* the value of an older_versions field as the first artifact gives it
FirstArtifactValue(release, field) ==
    IF field = "sha256_digest"
    THEN IF release[1].digests = <<>>
         THEN NONE
         ELSE Subscripted(release[1].digests[1].sha256)
    ELSE Subscripted(release[1][field])

\* C20: in a returned record, the older_versions entry of a non-current version
\* whose artifact list has one or more entries has every artifact field equal
\* to the first entry's value, whatever the later entries of the list are.
C20_FirstArtifactOnly ==
    (DetailsEnded /\ outcome.status = "returned") =>
        /\ Len(outcome.value.older_versions) = Len(OlderItems)
        /\ \A j \in 1..Len(OlderItems) :
              OlderItems[j].release # <<>> =>
                  \A k \in 1..Len(FieldOrder) :
                      outcome.value.older_versions[j][FieldOrder[k]]
                          = FirstArtifactValue(OlderItems[j].release, FieldOrder[k])

\* C20 witness: a returned record with an older version whose list has two
\* artifacts that differ in every plain field
C20_Witness ==
    /\ DetailsEnded
    /\ outcome.status = "returned"
    /\ \E j \in 1..Len(OlderItems) :
          /\ Len(OlderItems[j].release) = 2
          /\ OlderItems[j].release[1] = Artifact1
          /\ OlderItems[j].release[2] = ArtifactNoSha256
          /\ outcome.value.older_versions[j].upload_time = "2021-01-01T00:00:00"
          /\ outcome.value.older_versions[j].sha256_digest = "def456"
          /\ outcome.value.older_versions[j].size = "12345"


-----------------------------------------------------------------------------
(* The frame of set_username and the order of the detail fetches, checked    *)
(* under Spec.                                                               *)

\* this step is a call of set_username that returns
SetUsernameReturns ==
    /\ pc = "idle"
    /\ op' = "set_username"
    /\ outcome'.status = "returned"

\* C18: a set_username(u) that succeeds has a non-empty u, leaves the stored
\* username equal to u and the verbose and auto_install flags as they were; and
\* a step that changes the stored username is a set_username that succeeds.
C18_UsernameFrame ==
    [][/\ SetUsernameReturns =>
             /\ ~Falsy(arg')
             /\ username' = arg'
             /\ verbose' = verbose
             /\ auto_install' = auto_install
       /\ username' # username => SetUsernameReturns]_vars

\* C18 witness: set_username("bob") has returned on an object whose username
\* was "alice" before and whose verbose flag is set
C18_Witness ==
    /\ Ended("set_username")
    /\ outcome.status = "returned"
    /\ arg = "bob"
    /\ username = "bob"
    /\ verbose
    /\ ~auto_install

\* a detail fetch of the aggregation is under way
FetchInFlight == pc \in {"gpd_request", "gpd_json", "gpd_reshape"}

\* C19: within one get_all_packages_details call, the sequence of requested
\* names is a prefix of the listing (listing order, each listed package at most
\* once), and a request is issued only when every earlier one has returned its
\* record: at most one request is without a record, and then it is in flight
\* or it has failed the call.
C19_FetchesArePrefixOfListing ==
    op = "get_all_packages_details" =>
        /\ Len(fetches) <= Len(packages)
        /\ fetches = SubSeq(ListedNames, 1, Len(fetches))
        /\ Len(detailed_packages) <= Len(fetches)
        /\ Len(fetches) <= Len(detailed_packages) + 1
        /\ pc = "gpd_request" => Len(fetches) = Len(detailed_packages)
        /\ Len(fetches) = Len(detailed_packages) + 1 =>
              \/ pc \in {"gpd_json", "gpd_reshape"}
              \/ outcome.status = "raised"

\* C19 witness: the second listed package is being requested after the first
\* one's record was appended
C19_Witness ==
    /\ op = "get_all_packages_details"
    /\ pc = "gpd_json"
    /\ ListedNames = <<"Package1", "Package2">>
    /\ fetches = <<"Package1", "Package2">>
    /\ Len(detailed_packages) = 1


-----------------------------------------------------------------------------
(* The independence of get_package_details from the object, and the order of *)
(* the installation commands of get_user_packages, checked under Spec.       *)

\* what the registry's response for `name` makes of a get_package_details call
DetailsOutcome(name) ==
    LET response == registry[name]
    IN  CASE response.kind = "fetch_error" -> Raised(FetchError(response.text))
          [] response.kind = "decode_error" -> Raised(DecodeError(response.text))
          [] OTHER ->
               IF details(response.data).ok
               THEN Returned(details(response.data).value)
               ELSE Raised(details(response.data).exc)

\* the outcome of the call that this step ends is the one the response fixes
OutcomeFixedByResponse ==
    LET expected == DetailsOutcome(arg')
    IN  /\ outcome'.status = expected.status
        /\ outcome'.status = "returned" => outcome'.value = expected.value
        /\ outcome'.status = "raised" => outcome'.exc = expected.exc

\* C21: no step of a get_package_details call changes username, verbose or
\* auto_install, and the outcome of every such call is fixed by the registry's
\* response for its package name alone: whatever the username and the flags
\* are, and whatever calls came before, two calls with the same name against
\* the same response end with equal records (or equal errors).
C21_DetailsIndependentOfObject ==
    [][op' = "get_package_details" =>
          /\ UNCHANGED fields
          /\ pc' = "idle" => OutcomeFixedByResponse]_vars

\* C21 witness: get_package_details has returned the record of Package1 on an
\* object that has no username
C21_Witness ==
    /\ Ended("get_package_details")
    /\ username = NONE
    /\ arg = "Package1"
    /\ outcome.status = "returned"
    /\ outcome.value.name = "Package1"

\* C21 witness of the other object states: the same record on an object with a
\* username and both flags set
C21_WitnessConfigured ==
    /\ Ended("get_package_details")
    /\ username = "bob"
    /\ verbose
    /\ auto_install
    /\ arg = "Package1"
    /\ outcome.status = "returned"
    /\ outcome.value.name = "Package1"

\* the listing of a get_user_packages or get_all_packages_details call
Listing == op \in {"get_user_packages", "get_all_packages_details"}

\* an installation command of this call failed
InstallFailed == cause.kind \in {"CalledProcessError", "FileNotFoundError"}

\* Playwright was started, a browser launched or a page visited in this call
BrowserUsed == playwright # "none" \/ browser # "none" \/ visited # <<>>

\* C22: in get_user_packages, with auto_install off no installation command is
\* run; with it on, the commands run are a prefix of (browser installation,
\* system-dependency installation), the second only after the first succeeded,
\* and Playwright is started and the browser launched only after both ran and
\* neither failed; a failed installation ends the call with the package's
\* error and no browser.
C22_InstallBeforeLaunch ==
    Listing =>
        /\ ~auto_install => installs = <<>>
        /\ installs \in {<<>>, <<InstallBrowsers>>, <<InstallBrowsers, InstallDeps>>}
        /\ pc = "gup_install_deps" => installs = <<InstallBrowsers>> /\ ~InstallFailed
        /\ (auto_install /\ BrowserUsed) =>
              installs = <<InstallBrowsers, InstallDeps>> /\ ~InstallFailed
        /\ cause = CalledProcessError(InstallBrowsers) => installs = <<InstallBrowsers>>
        /\ InstallFailed =>
              /\ pc = "idle"
              /\ outcome.status = "raised"
              /\ outcome.exc.kind = ErrorKind
              /\ CarriesCause(outcome.exc.msg, cause)
              /\ ~BrowserUsed

\* C22 witness: the system-dependency installation failed after the browser
\* installation succeeded, and the call has failed without a browser
C22_Witness ==
    /\ ListingEnded
    /\ auto_install
    /\ installs = <<InstallBrowsers, InstallDeps>>
    /\ cause = CalledProcessError(InstallDeps)
    /\ outcome.status = "raised"
    /\ browser = "none"

\* C22 witness of the launch: both installations ran and the browser is open
C22_WitnessLaunched ==
    /\ Listing
    /\ auto_install
    /\ installs = <<InstallBrowsers, InstallDeps>>
    /\ browser = "open"

\* C22 witness of auto_install off: the browser is open and nothing was installed
C22_WitnessOff ==
    /\ Listing
    /\ ~auto_install
    /\ installs = <<>>
    /\ browser = "open"

=============================================================================
